---- MODULE Spec2Model ----
(***************************************************************************)
(* Model of src/src/App.tsx: the App component's scenario collection       *)
(* (graphs, maxYears), the handlers addGraph / removeGraph / updateGraph,  *)
(* the simulation calculateLoanData and the "Payoff Time" message.         *)
(*                                                                         *)
(* JavaScript numbers are modelled as exact rationals (sign, numerator,    *)
(* denominator; numerator and denominator are arbitrary-precision          *)
(* naturals) together with the special values NaN, +/-Infinity and null.   *)
(* Rounding of IEEE-754 doubles is not modelled; division by zero is.      *)
(***************************************************************************)
EXTENDS Integers, Sequences, FiniteSets

----------------------------------------------------------------------------
(* Arbitrary-precision naturals: little-endian sequences of limbs in       *)
(* 0..Base-1, without most-significant zero limbs; <<>> is zero.           *)

Base == 100 * 100

RECURSIVE NatToBig(_)
NatToBig(i) ==
    IF i = 0 THEN <<>> ELSE <<i % Base>> \o NatToBig(i \div Base)

RECURSIVE Trim(_)
Trim(a) ==
    IF a = <<>> THEN a
    ELSE IF a[Len(a)] = 0 THEN Trim(SubSeq(a, 1, Len(a) - 1))
    ELSE a

RECURSIVE BigAddC(_, _, _)
BigAddC(a, b, c) ==
    IF a = <<>> /\ b = <<>>
    THEN IF c = 0 THEN <<>> ELSE <<c>>
    ELSE LET x == (IF a = <<>> THEN 0 ELSE Head(a))
                  + (IF b = <<>> THEN 0 ELSE Head(b)) + c
         IN  <<x % Base>> \o BigAddC(IF a = <<>> THEN a ELSE Tail(a),
                                     IF b = <<>> THEN b ELSE Tail(b),
                                     x \div Base)

BigAdd(a, b) == BigAddC(a, b, 0)

RECURSIVE BigCmpAt(_, _, _)
BigCmpAt(a, b, i) ==
    IF i = 0 THEN 0
    ELSE IF a[i] > b[i] THEN 1
    ELSE IF a[i] < b[i] THEN -1
    ELSE BigCmpAt(a, b, i - 1)

\* -1, 0 or 1 as a < b, a = b, a > b
BigCmp(a, b) ==
    IF Len(a) > Len(b) THEN 1
    ELSE IF Len(a) < Len(b) THEN -1
    ELSE BigCmpAt(a, b, Len(a))

RECURSIVE BigSubB(_, _, _)
BigSubB(a, b, br) ==
    IF a = <<>> THEN <<>>
    ELSE LET x == Head(a) - (IF b = <<>> THEN 0 ELSE Head(b)) - br
         IN  <<IF x < 0 THEN x + Base ELSE x>>
             \o BigSubB(Tail(a), IF b = <<>> THEN b ELSE Tail(b),
                        IF x < 0 THEN 1 ELSE 0)

\* a - b, for a >= b
BigSub(a, b) == Trim(BigSubB(a, b, 0))

RECURSIVE BigMulLimb(_, _, _)
BigMulLimb(a, k, c) ==
    IF a = <<>>
    THEN IF c = 0 THEN <<>> ELSE <<c>>
    ELSE LET x == Head(a) * k + c
         IN  <<x % Base>> \o BigMulLimb(Tail(a), k, x \div Base)

RECURSIVE BigMul(_, _)
BigMul(a, b) ==
    IF a = <<>> \/ b = <<>> THEN <<>>
    ELSE LET rest == BigMul(a, Tail(b))
         IN  BigAdd(Trim(BigMulLimb(a, Head(b), 0)),
                    IF rest = <<>> THEN rest ELSE <<0>> \o rest)

RECURSIVE BigModSmall(_, _, _, _)
BigModSmall(a, k, i, rem) ==
    IF i = 0 THEN rem
    ELSE BigModSmall(a, k, i - 1, (rem * Base + a[i]) % k)

RECURSIVE BigDivSmallAt(_, _, _, _)
BigDivSmallAt(a, k, i, rem) ==
    IF i = 0 THEN <<>>
    ELSE LET cur == rem * Base + a[i]
         IN  BigDivSmallAt(a, k, i - 1, cur % k) \o <<cur \div k>>

\* a \div k for a small positive k
BigDivSmall(a, k) == Trim(BigDivSmallAt(a, k, Len(a), 0))

\* n/d with the common factors k of n and d removed
RECURSIVE ReduceBy(_, _, _)
ReduceBy(n, d, k) ==
    IF n # <<>> /\ BigModSmall(n, k, Len(n), 0) = 0
                /\ BigModSmall(d, k, Len(d), 0) = 0
    THEN ReduceBy(BigDivSmall(n, k), BigDivSmall(d, k), k)
    ELSE <<n, d>>

\* n/d in lowest terms with respect to the primes 2, 3 and 5 (every
\* denominator of the simulation's state is a product of these)
Reduce(n, d) ==
    LET r2 == ReduceBy(n, d, 2)
        r3 == ReduceBy(r2[1], r2[2], 3)
    IN  ReduceBy(r3[1], r3[2], 5)

\* the smallest q with (q + 1) * d > n: floor(n / d)
RECURSIVE BigFloorDiv(_, _)
BigFloorDiv(n, d) ==
    IF BigCmp(n, d) < 0 THEN 0 ELSE 1 + BigFloorDiv(BigSub(n, d), d)

----------------------------------------------------------------------------
(* JavaScript numbers.                                                     *)

One  == <<1>>
Zero == [k |-> "num", s |-> 0, n |-> <<>>, d |-> One]
NaN  == [k |-> "nan", s |-> 0, n |-> <<>>, d |-> One]
null == [k |-> "null", s |-> 0, n |-> <<>>, d |-> One]
Inf(s) == [k |-> "inf", s |-> s, n |-> <<>>, d |-> One]

\* the number s * n / d (s in {-1, 0, 1}; n, d naturals, d > 0)
MkNum(s, n, d) ==
    IF s = 0 \/ n = <<>> THEN Zero
    ELSE LET r == Reduce(n, d)
         IN  [k |-> "num", s |-> s, n |-> r[1], d |-> r[2]]

\* the number a / b for integers a and b > 0 (a numeric literal)
Rat(a, b) ==
    MkNum(IF a > 0 THEN 1 ELSE IF a < 0 THEN -1 ELSE 0,
          NatToBig(IF a < 0 THEN -a ELSE a), NatToBig(b))

Num(a) == Rat(a, 1)

Neg(x) == [x EXCEPT !.s = -x.s]

\* signed sum of the integers sx * nx and sy * ny, as <<sign, magnitude>>
SignedAdd(sx, nx, sy, ny) ==
    IF sx = 0 THEN <<sy, ny>>
    ELSE IF sy = 0 THEN <<sx, nx>>
    ELSE IF sx = sy THEN <<sx, BigAdd(nx, ny)>>
    ELSE LET c == BigCmp(nx, ny)
         IN  IF c = 0 THEN <<0, <<>> >>
             ELSE IF c > 0 THEN <<sx, BigSub(nx, ny)>>
             ELSE <<sy, BigSub(ny, nx)>>

\* x + y
Add(x, y) ==
    IF x.k = "nan" \/ y.k = "nan" THEN NaN
    ELSE IF x.k = "inf" /\ y.k = "inf" THEN (IF x.s = y.s THEN x ELSE NaN)
    ELSE IF x.k = "inf" THEN x
    ELSE IF y.k = "inf" THEN y
    ELSE IF x.d = y.d
         THEN LET r == SignedAdd(x.s, x.n, y.s, y.n)
              IN  MkNum(r[1], r[2], x.d)
         ELSE LET r == SignedAdd(x.s, BigMul(x.n, y.d), y.s, BigMul(y.n, x.d))
              IN  MkNum(r[1], r[2], BigMul(x.d, y.d))

\* x - y
Sub(x, y) == Add(x, Neg(y))

\* x * y
Mul(x, y) ==
    IF x.k = "nan" \/ y.k = "nan" THEN NaN
    ELSE IF x.k = "inf" \/ y.k = "inf"
         THEN (IF x.s * y.s = 0 THEN NaN ELSE Inf(x.s * y.s))
    ELSE MkNum(x.s * y.s, BigMul(x.n, y.n), BigMul(x.d, y.d))

\* x / y: 0/0 is NaN, a non-zero number over 0 is an infinity
Div(x, y) ==
    IF x.k = "nan" \/ y.k = "nan" THEN NaN
    ELSE IF x.k = "inf"
         THEN (IF y.k = "inf" THEN NaN
               ELSE Inf(IF y.s < 0 THEN -x.s ELSE x.s))
    ELSE IF y.k = "inf" THEN Zero
    ELSE IF y.s = 0 THEN (IF x.s = 0 THEN NaN ELSE Inf(x.s))
    ELSE MkNum(x.s * y.s, BigMul(x.n, y.d), BigMul(x.d, y.n))

\* the sign of x - y for two numbers (not NaN): -1, 0 or 1
Cmp(x, y) ==
    IF x.k = "inf" \/ y.k = "inf"
    THEN (IF x.k = "inf" /\ y.k = "inf"
          THEN (IF x.s = y.s THEN 0 ELSE x.s)
          ELSE IF x.k = "inf" THEN x.s ELSE -y.s)
    ELSE Sub(x, y).s

\* x > y, x <= y, x === y as JavaScript evaluates them on numbers
Gt(x, y) == x.k # "nan" /\ y.k # "nan" /\ Cmp(x, y) > 0
Le(x, y) == x.k # "nan" /\ y.k # "nan" /\ Cmp(x, y) <= 0
Eq(x, y) == x.k # "nan" /\ y.k # "nan" /\ Cmp(x, y) = 0

\* Math.floor(x) of a finite number, as an integer
Floor(x) ==
    IF x.s >= 0 THEN BigFloorDiv(x.n, x.d)
    ELSE -BigFloorDiv(BigSub(BigAdd(x.n, x.d), One), x.d)

\* Math.round(x) of a finite number: the nearest integer, halves upwards
Round(x) == Floor(Add(x, Rat(1, 2)))

----------------------------------------------------------------------------
(* The App component: its state, and the inputs the model draws.          *)

VARIABLES
    graphs,             \* useState<LoanGraph[]>: the scenario collection
    maxYears,           \* useState(20): the shared horizon
    pc,                 \* "idle", or the position of a calculateLoanData run
    year,               \* calculateLoanData: the loop counter
    currentLoanAmount,  \* calculateLoanData: locals and result arrays
    yearlyRentalIncome,
    years,
    loanAmounts,
    yearlyBreakdown,
    yearsToZero,
    message             \* the rendered "Payoff Time" text of the scenario

vars == <<graphs, maxYears, pc, year, currentLoanAmount, yearlyRentalIncome,
          years, loanAmounts, yearlyBreakdown, yearsToZero, message>>

calcVars == <<pc, year, currentLoanAmount, yearlyRentalIncome, years,
              loanAmounts, yearlyBreakdown, yearsToZero, message>>

MaxYears  == 3
MaxGraphs == 3

DefaultLoanAmount    == 1600000
DefaultMonthlyRental == 16000
DefaultMaxYears      == 20
DefaultInterestRate   == Rat(1, 10)
DefaultRentalIncrease == Rat(106, 100)

colors ==
    << "rgb(255, 99, 132)", "rgb(54, 162, 235)", "rgb(75, 192, 192)",
       "rgb(255, 205, 86)", "rgb(153, 102, 255)", "rgb(255, 159, 64)" >>

Digit == << "0", "1", "2", "3", "4", "5", "6", "7", "8", "9" >>

\* Number.prototype.toString of a natural number
RECURSIVE ToString(_)
ToString(i) ==
    IF i < 10 THEN Digit[i + 1] ELSE ToString(i \div 10) \o Digit[(i % 10) + 1]

\* the scenario addGraph appends, and (with id "1") the initial one
NewGraph(newId, color) ==
    [ id             |-> newId,
      name           |-> "Scenario " \o newId,
      loanAmount     |-> Num(DefaultLoanAmount),
      monthlyRental  |-> Num(DefaultMonthlyRental),
      interestRate   |-> DefaultInterestRate,
      rentalIncrease |-> DefaultRentalIncrease,
      color          |-> color ]

InitialGraphs == << NewGraph("1", colors[1]) >>

\* the values the number inputs are set to
LoanAmounts     == { Num(-2), Num(0), Num(1), Num(5), Num(47) }
MonthlyRentals  == { Num(-1), Num(0), Num(1), Num(4) }
InterestRates   == { Num(0), Rat(1, 2), Rat(1, 10), Num(-2) }
RentalIncreases == { Num(0), Num(1), Num(-1), Num(-2), Num(2), Rat(1, 2) }

\* a scenario after its number inputs were edited (updateGraph)
EditedGraphs ==
    { [InitialGraphs[1] EXCEPT !.loanAmount = la, !.monthlyRental = mr,
                               !.interestRate = ir, !.rentalIncrease = ri] :
        la \in LoanAmounts, mr \in MonthlyRentals,
        ir \in InterestRates, ri \in RentalIncreases }

Idle ==
    /\ pc = "idle"
    /\ year = 0
    /\ currentLoanAmount = Zero
    /\ yearlyRentalIncome = Zero
    /\ years = <<>>
    /\ loanAmounts = <<>>
    /\ yearlyBreakdown = <<>>
    /\ yearsToZero = null
    /\ message = [paid |-> FALSE, years |-> 0, months |-> 0]

----------------------------------------------------------------------------
(* calculateLoanData(graph), for the scenario graphs[1], and the message   *)
(* rendered from its result.                                               *)

graph == graphs[1]

\* lines 62-75: the locals and the initial values
Enter ==
    /\ pc = "idle"
    /\ pc' = "loop"
    /\ year' = 0
    /\ currentLoanAmount' = graph.loanAmount
    /\ yearlyRentalIncome' = Mul(Num(12), graph.monthlyRental)
    /\ years' = <<0>>
    /\ loanAmounts' = <<currentLoanAmount'>>
    /\ yearlyBreakdown' = <<>>
    /\ yearsToZero' = null
    /\ UNCHANGED <<graphs, maxYears, message>>

\* the loop condition with an off-by-one bound
LoopCondInclusive == year <= maxYears

\* line 77: the loop condition
LoopCond == year < maxYears

\* the interest with the rate read as a percentage
AnnualInterestPercent(amount, rate) == Div(Mul(amount, rate), Num(100))

\* line 79
AnnualInterest(amount, rate) == Mul(amount, rate)

\* the balance clamped at zero
NextLoanAmountClamped(amount, interest, rental) ==
    LET a == Sub(Add(amount, interest), rental)
    IN  IF Gt(Zero, a) THEN Zero ELSE a

\* lines 81-82
NextLoanAmount(amount, interest, rental) == Sub(Add(amount, interest), rental)

\* the escalation factor read as a growth rate
NextRentalIncomeAdded(rental, increase) == Add(rental, Mul(rental, increase))

\* line 92
NextRentalIncome(rental, increase) == Mul(rental, increase)

\* the crossing condition with a strict comparison of the new balance
CrossingStrict(previousAmount, amount, ytz) ==
    /\ Gt(previousAmount, Zero)
    /\ Gt(Zero, amount)
    /\ ytz = null

\* the crossing condition without the first-crossing-only test
CrossingAgain(previousAmount, amount, ytz) ==
    /\ Gt(previousAmount, Zero)
    /\ Le(amount, Zero)

\* the crossing condition without the test of the start balance
CrossingAnyStart(previousAmount, amount, ytz) ==
    /\ Le(amount, Zero)
    /\ ytz = null

\* lines 98-102: the zero-crossing condition
Crossing(previousAmount, amount, ytz) ==
    /\ Gt(previousAmount, Zero)
    /\ Le(amount, Zero)
    /\ ytz = null

\* line 104: the monthly rental, from the already escalated yearly rental
MonthlyRentalOf(escalated, increase) == Div(Div(escalated, increase), Num(12))

\* lines 104-113: the point within the year when the loan hits zero
PayoffPoint(y, previousAmount, escalated, rate, increase) ==
    LET monthlyRental    == MonthlyRentalOf(escalated, increase)
        monthlyInterest  == Div(Mul(previousAmount, rate), Num(12))
        monthlyReduction == Sub(monthlyRental, monthlyInterest)
    IN  IF Gt(monthlyReduction, Zero)
        THEN LET monthsToZero == Div(previousAmount, monthlyReduction)
             IN  Add(Num(y), Div(monthsToZero, Num(12)))
        ELSE Num(y + 1)

\* lines 84-90
Record(y, loanAmountStart, annualInterest, rental, amount) ==
    [ year           |-> y + 1,
      loanAmountStart |-> loanAmountStart,
      interest       |-> annualInterest,
      rentalIncome   |-> rental,
      loanAmountEnd  |-> amount ]

\* lines 77-115: one iteration of the loop
LoopStep ==
    /\ pc = "loop"
    /\ LoopCond
    /\ LET loanAmountStart == currentLoanAmount
           annualInterest  == AnnualInterest(currentLoanAmount,
                                             graph.interestRate)
           previousAmount  == currentLoanAmount
           amount          == NextLoanAmount(currentLoanAmount, annualInterest,
                                             yearlyRentalIncome)
           escalated       == NextRentalIncome(yearlyRentalIncome,
                                               graph.rentalIncrease)
       IN  /\ currentLoanAmount' = amount
           /\ yearlyBreakdown' =
                Append(yearlyBreakdown,
                       Record(year, loanAmountStart, annualInterest,
                              yearlyRentalIncome, amount))
           /\ yearlyRentalIncome' = escalated
           /\ years' = Append(years, year + 1)
           /\ loanAmounts' = Append(loanAmounts, amount)
           /\ yearsToZero' =
                IF Crossing(previousAmount, amount, yearsToZero)
                THEN PayoffPoint(year, previousAmount, escalated,
                                 graph.interestRate, graph.rentalIncrease)
                ELSE yearsToZero
    /\ year' = year + 1
    /\ pc' = "loop"
    /\ UNCHANGED <<graphs, maxYears, message>>

\* line 481: the truthiness of data.yearsToZero
Truthy(x) == x.k = "inf" \/ (x.k = "num" /\ x.s # 0)

\* lines 482-483
PaidYears(ytz) == Floor(ytz)
PaidMonths(ytz) == Round(Mul(Sub(ytz, Num(Floor(ytz))), Num(12)))

\* lines 479-487: the message, from the result of calculateLoanData
Message(ytz) ==
    IF Truthy(ytz)
    THEN [paid |-> TRUE, years |-> PaidYears(ytz), months |-> PaidMonths(ytz)]
    ELSE [paid |-> FALSE, years |-> maxYears, months |-> 0]

\* lines 117 and 479-487: the loop is left, the result returned and rendered
Return ==
    /\ pc = "loop"
    /\ ~LoopCond
    /\ pc' = "done"
    /\ message' = Message(yearsToZero)
    /\ UNCHANGED <<graphs, maxYears, year, currentLoanAmount,
                   yearlyRentalIncome, years, loanAmounts, yearlyBreakdown,
                   yearsToZero>>

\* the App as first rendered (lines 36-48), or after its one scenario and
\* the horizon were edited; no calculateLoanData run has begun
Init ==
    /\ \/ graphs = InitialGraphs /\ maxYears = DefaultMaxYears
       \/ graphs \in { <<g>> : g \in EditedGraphs } /\ maxYears \in 0..MaxYears
    /\ Idle

Next == Enter \/ LoopStep \/ Return

Spec == Init /\ [][Next]_vars

----------------------------------------------------------------------------
(* The handlers of the scenario collection.                                *)

\* lines 143-158
addGraph ==
    /\ Len(graphs) < MaxGraphs
    /\ LET newId      == ToString(Len(graphs) + 1)
           colorIndex == Len(graphs) % Len(colors)
       IN  graphs' = Append(graphs, NewGraph(newId, colors[colorIndex + 1]))
    /\ UNCHANGED <<maxYears, calcVars>>

\* graphs.filter((graph) => graph.id !== id)
RECURSIVE FilterOut(_, _)
FilterOut(gs, id) ==
    IF gs = <<>> THEN <<>>
    ELSE IF Head(gs).id # id THEN <<Head(gs)>> \o FilterOut(Tail(gs), id)
    ELSE FilterOut(Tail(gs), id)

\* lines 160-162; the button exists only while graphs.length > 1 (line 366)
removeGraph(id) ==
    /\ Len(graphs) > 1
    /\ graphs' = FilterOut(graphs, id)
    /\ UNCHANGED <<maxYears, calcVars>>

\* { ...graph, ...updates }
Merge(g, updates) ==
    [f \in DOMAIN g |-> IF f \in DOMAIN updates THEN updates[f] ELSE g[f]]

\* the updates the inputs of a scenario's panel send
Updates ==
    { [loanAmount |-> Num(5)], [monthlyRental |-> Num(4)] }

\* lines 164-170
updateGraph(id, updates) ==
    /\ graphs' = [i \in DOMAIN graphs |->
                    IF graphs[i].id = id THEN Merge(graphs[i], updates)
                    ELSE graphs[i]]
    /\ UNCHANGED <<maxYears, calcVars>>

Ids == { graphs[i].id : i \in DOMAIN graphs }

\* lines 36-48: the App as first rendered
AppInit ==
    /\ graphs = InitialGraphs
    /\ maxYears = DefaultMaxYears
    /\ Idle

AppNext ==
    \/ addGraph
    \/ \E id \in Ids : removeGraph(id)
    \/ \E id \in Ids, u \in Updates : updateGraph(id, u)

AppSpec == AppInit /\ [][AppNext]_vars

----------------------------------------------------------------------------
(* The claims.                                                             *)

Started == pc # "idle"
Done    == pc = "done"

\* balances[k] <= 0 < balances[k-1], for the balances computed so far
CrossAt(k) ==
    /\ k \in 1..(Len(loanAmounts) - 1)
    /\ Le(loanAmounts[k + 1], Zero)
    /\ Gt(loanAmounts[k], Zero)

Crossings == { k \in 1..(Len(loanAmounts) - 1) : CrossAt(k) }

FirstCrossing == CHOOSE k \in Crossings : \A j \in Crossings : k <= j

RECURSIVE Pow(_, _)
Pow(x, e) == IF e = 0 THEN Num(1) ELSE Mul(x, Pow(x, e - 1))

C2_Chaining ==
    Started =>
        /\ Len(loanAmounts) = Len(yearlyBreakdown) + 1
        /\ \A i \in 1..Len(yearlyBreakdown) :
             LET r == yearlyBreakdown[i]
             IN  /\ r.loanAmountStart = loanAmounts[i]
                 /\ r.loanAmountEnd = loanAmounts[i + 1]
                 /\ Eq(r.loanAmountEnd,
                       Sub(Add(r.loanAmountStart,
                               Mul(r.loanAmountStart, graph.interestRate)),
                           r.rentalIncome))

C2_Witness ==
    /\ Done
    /\ \E i \in 1..Len(yearlyBreakdown) :
         /\ yearlyBreakdown[i].loanAmountStart.s < 0
         /\ yearlyBreakdown[i].loanAmountEnd.s < 0
         /\ yearlyBreakdown[i].loanAmountEnd # yearlyBreakdown[i].loanAmountStart

ResultShape ==
    /\ years = [i \in 1..(maxYears + 1) |-> i - 1]
    /\ Len(loanAmounts) = maxYears + 1
    /\ loanAmounts[1] = graph.loanAmount
    /\ Len(yearlyBreakdown) = maxYears
    /\ \A i \in 1..maxYears : yearlyBreakdown[i].year = i

\* C3: for every horizon H >= 0 the run terminates (every iteration
\* advances the loop counter, which stays within 0..H; the run returns as
\* soon as the counter reaches H), with years = 0..H, loanAmounts of
\* length H+1 starting at the scenario's loanAmount, and yearlyBreakdown of
\* length H whose i-th record has year i.
C3_TerminatesWithShape ==
    /\ [](year \in 0..maxYears)
    /\ [](Started => Len(years) = year + 1)
    /\ [](Done => ResultShape)
    /\ [][(pc = "loop" /\ pc' = "loop") => year' = year + 1]_vars
    /\ [][(pc = "loop" /\ year = maxYears) => pc' = "done"]_vars

C3_Witness ==
    /\ Done
    /\ maxYears = 0
    /\ years = <<0>>
    /\ yearlyBreakdown = <<>>

\* C4: the rental recorded for year i (1-based) is
\* 12 * monthlyRental * rentalIncrease^(i-1).
C4_RentalEscalation ==
    \A i \in 1..Len(yearlyBreakdown) :
        Eq(yearlyBreakdown[i].rentalIncome,
           Mul(Mul(Num(12), graph.monthlyRental),
               Pow(graph.rentalIncrease, i - 1)))

C4_Witness ==
    /\ Len(yearlyBreakdown) >= 3
    /\ ~Eq(yearlyBreakdown[3].rentalIncome, yearlyBreakdown[2].rentalIncome)
    /\ ~Eq(yearlyBreakdown[2].rentalIncome, yearlyBreakdown[1].rentalIncome)

\* C5: once yearsToZero is set, no later step of the run changes or clears
\* it, even when the balance crosses zero again.
C5_WrittenOnce ==
    [][yearsToZero # null => yearsToZero' = yearsToZero]_vars

C5_Witness ==
    /\ Done
    /\ Cardinality(Crossings) >= 2

\* C6 as claimed: with loanAmount <= 0 the run ends with yearsToZero null,
\* for every rental, rate and escalation factor.
C6_NeverPaidOff ==
    (Done /\ Le(graph.loanAmount, Zero)) => yearsToZero = null

\* C6 as amended: with loanAmount <= 0 nothing is recorded in year 1; and
\* nothing is recorded at all when monthlyRental >= 0, rentalIncrease >= 0
\* and interestRate >= -1.
C6_NeverPaidOffAmended ==
    (Started /\ Le(graph.loanAmount, Zero)) =>
        /\ year <= 1 => yearsToZero = null
        /\ ( /\ Le(Zero, graph.monthlyRental)
             /\ Le(Zero, graph.rentalIncrease)
             /\ Le(Num(-1), graph.interestRate) ) => yearsToZero = null

C6_Witness ==
    /\ Done
    /\ maxYears >= 2
    /\ Le(graph.loanAmount, Zero)
    /\ Gt(graph.monthlyRental, Zero)
    /\ Gt(graph.rentalIncrease, Zero)
    /\ Le(Num(-1), graph.interestRate)
    /\ yearsToZero = null

\* C7: the default scenario over 20 years has the year-1 record
\* (1,600,000; 160,000; 192,000; 1,568,000) and ends with a payoff point
\* in (0, 20].
C7_DefaultScenario ==
    (graphs = InitialGraphs /\ maxYears = DefaultMaxYears) =>
        /\ Len(yearlyBreakdown) >= 1 =>
             /\ yearlyBreakdown[1].year = 1
             /\ Eq(yearlyBreakdown[1].loanAmountStart, Num(1600000))
             /\ Eq(yearlyBreakdown[1].interest, Num(160000))
             /\ Eq(yearlyBreakdown[1].rentalIncome, Num(192000))
             /\ Eq(yearlyBreakdown[1].loanAmountEnd, Num(1568000))
        /\ Done =>
             /\ yearsToZero # null
             /\ Gt(yearsToZero, Zero)
             /\ Le(yearsToZero, Num(20))

C7_Witness ==
    /\ Done
    /\ graphs = InitialGraphs
    /\ maxYears = DefaultMaxYears
    /\ Len(yearlyBreakdown) = 20

\* C8 as claimed: in the crossing year y the payoff point is
\* (y-1) + (balanceStart / monthlyNetReduction) / 12 with
\* monthlyNetReduction = rentalIncome(y)/12 - balanceStart*interestRate/12
\* whenever that is > 0, and y only when it is <= 0.
C8_Interpolation ==
    (Started /\ Crossings # {}) =>
        LET y   == FirstCrossing
            r   == yearlyBreakdown[y]
            mnr == Sub(Div(r.rentalIncome, Num(12)),
                       Div(Mul(r.loanAmountStart, graph.interestRate),
                           Num(12)))
        IN  IF Gt(mnr, Zero)
            THEN Eq(yearsToZero,
                    Add(Num(y - 1), Div(Div(r.loanAmountStart, mnr), Num(12))))
            ELSE Eq(yearsToZero, Num(y))

\* C9 as claimed: the scenarios of the collection have pairwise distinct ids.
C9_DistinctIds ==
    \A i, j \in DOMAIN graphs : i # j => graphs[i].id # graphs[j].id

\* C10 as claimed: "Paid off" is shown exactly when a payoff point was
\* returned, with X = floor(p), Y = round((p - X) * 12) and Y in 0..11.
C10_PayoffMessage ==
    Done =>
        /\ message.paid <=> (yearsToZero # null)
        /\ message.paid =>
             /\ message.years = Floor(yearsToZero)
             /\ message.months =
                  Round(Mul(Sub(yearsToZero, Num(message.years)), Num(12)))
             /\ message.months \in 0..11

====
